---- MODULE Spec2Model ----
(***************************************************************************)
(* Garden sunlight mapper: the p5.js sketches of the repository.            *)
(*                                                                         *)
(*   variant A  src/unnamed/part_000 lines 1-481: images are pushed by the  *)
(*              success callback, the heat map is generated by an async     *)
(*              function that yields every 20th column, a click starts a    *)
(*              hill-climbing rectangle that draw() moves once per frame.   *)
(*   variant C  src/sketch.js lines 1-316: the 90 image objects are pushed  *)
(*              at once, UP/DOWN change the threshold and rebuild the heat  *)
(*              map synchronously, a click saves a rectangle.  The last     *)
(*              success callback clears isLoading before resizeCanvas,      *)
(*              which draws a frame: that frame throws on the undefined     *)
(*              heat map and the callback never creates it.                 *)
(*                                                                         *)
(* Lengths (the sides of the footprint, the centre and the edges of a       *)
(* rectangle) and the brightness of a pixel are doubles, computed with the  *)
(* roundings of the code.                                                  *)
(*                                                                         *)
(* A p5.Image is a record [width, height, canvas, pixels]: canvas is the    *)
(* image's committed bitmap, pixels the array that loadPixels() fills from  *)
(* the canvas and updatePixels() writes back to it.  Both are RGBA arrays   *)
(* indexed from 0 as in the source.                                        *)
(*                                                                         *)
(* History variables, not in the source: moves is the sequence of centres    *)
(* the current search has moved away from, clicks counts the clicks inside  *)
(* the canvas.                                                             *)
(*                                                                         *)
(* Not modelled: bestRectangle (part_000 lines 139-155), which is written   *)
(* and read only by that block of draw(), and all rendering calls.          *)
(***************************************************************************)
EXTENDS Integers, Sequences, FiniteSets, TLC

VARIABLES images, pending, loaded, heatMap, threshold, rectWidth, rectHeight,
          isVertical, permanentRectangles, isLoading, loadingStage,
          movingRectangle, width, height, gen, notice, moves, clicks

vars == <<images, pending, loaded, heatMap, threshold, rectWidth, rectHeight,
          isVertical, permanentRectangles, isLoading, loadingStage,
          movingRectangle, width, height, gen, notice, moves, clicks>>

----------------------------------------------------------------------------
(* Program constants *)

totalImages == 90
defaultThreshold == 200
thresholdStep == 10
maxChannel == 255
chunkColumns == 20
cursorGap == 8
canvasWidthA == 1280
canvasHeightA == 720
canvasWidthC == 800
canvasHeightC == 600

(* Bounds of the model *)

\* size of the image files given to variant A
ImgW == 3
ImgH == 12
\* size of the image files given to variant C
ImgWC == 2
ImgHC == 2
\* the size of the pictures with tinted pixels
TintImgW == 2
TintImgH == 2
\* load attempts still outstanding in the initial state
PendingLoads == 2
\* '+' is taken only while the footprint stays within MaxRect pixels
MaxRect == 3
\* mouse clicks inside the canvas in one run
MaxClicks == 2

null == << >>
undefined == << >>
NaN == -1

----------------------------------------------------------------------------
(* Numbers *)

Min(a, b) == IF a < b THEN a ELSE b
Max(a, b) == IF a > b THEN a ELSE b

\* the element of a set of one element
the(S) == CHOOSE v \in S : TRUE

RECURSIVE bitsOf(_)
bitsOf(n) == IF n = 0 THEN 0 ELSE 1 + bitsOf(n \div 2)

RECURSIVE pow2(_)
pow2(d) == IF d = 0 THEN 1 ELSE 2 * pow2(d - 1)

\* A length (a footprint side, a coordinate of a centre or an edge) is a double, as in
\* JavaScript.  The footprint sides are 8 * (192/19) and 4 * (192/19), multiples of
\* 2^-47, with whole numbers added and subtracted; a centre and an edge are a whole
\* number plus or minus a side or half a side.  So every length is a multiple of
\* 2^-48, and it is held as <<n, hi, lo>> for the number n + hi / 2^24 + lo / 2^48
\* with n its floor and 0 <= hi, lo < 2^24.
Frac == 16777216

\* the length n + hi / 2^24 + lo / 2^48 for any integers hi and lo
carried(n, hi, lo) ==
  <<n + (hi + lo \div Frac) \div Frac, (hi + lo \div Frac) % Frac, lo % Frac>>

\* the whole number k as a length
whole(k) == <<k, 0, 0>>

\* a + b and a - b in real numbers
exactSum(a, b) == carried(a[1] + b[1], a[2] + b[2], a[3] + b[3])
exactDifference(a, b) == carried(a[1] - b[1], a[2] - b[2], a[3] - b[3])

\* the whole part of |v|
magnitude(v) ==
  IF v[1] >= 0 THEN v[1]
  ELSE IF v[2] = 0 /\ v[3] = 0 THEN 0 - v[1]
  ELSE 0 - v[1] - 1

\* the multiple of p / 2^48 nearest to the real number v, the even one of two
roundedTo(v, p) ==
  IF 2 * (v[3] % p) > p \/ (2 * (v[3] % p) = p /\ (v[3] \div p) % 2 = 1)
    THEN carried(v[1], v[2], v[3] - (v[3] % p) + p)
    ELSE <<v[1], v[2], v[3] - (v[3] % p)>>

\* the double nearest to the real number v, ties to even: a double of magnitude in
\* [2^k, 2^(k+1)) is a multiple of 2^(k-52), so k - 4 bits of lo are dropped, and
\* none when the magnitude is at most 32
nearestDouble(v) ==
  IF -32 <= v[1] /\ v[1] < 32 THEN v
  ELSE roundedTo(v, pow2(Max(0, bitsOf(magnitude(v)) - 5)))

\* a + b, a - b, -a and a / 2 as JavaScript computes them; a side is a multiple of
\* 2^-47, so its half is exact
plus(a, b) ==
  the({the({nearestDouble(v) : v \in {exactSum(p[1], p[2])}}) : p \in {<<a, b>>}})
minus(a, b) ==
  the({the({nearestDouble(v) : v \in {exactDifference(p[1], p[2])}}) : p \in {<<a, b>>}})
negated(a) == exactDifference(whole(0), a)
half(a) ==
  the({<<v[1] \div 2,
         (v[2] + (v[1] % 2) * Frac) \div 2,
         (v[3] + ((v[2] + (v[1] % 2) * Frac) % 2) * Frac) \div 2>> : v \in {a}})

\* Math.floor
floor(v) == v[1]

\* a < b
lessThan(a, b) == exactDifference(a, b)[1] < 0

\* p5's max(a, b)
max(a, b) == IF lessThan(a, b) THEN b ELSE a

\* a <= b
atMost(a, b) == ~lessThan(b, a)

\* 8 * scale and 4 * scale with scale = 192 / 19 (lines 12-16):
\* 80.84210526315789 and 40.421052631578945
defaultRectWidth == <<80, 14128181, 15011192>>
defaultRectHeight == <<40, 7064090, 15894204>>

\* store of the number num/den (den > 0) into a Uint8ClampedArray element:
\* round to nearest, ties to even, clamp to 0..255
ToUint8Clamp(num, den) ==
  LET q == num \div den
      r == num % den
      n == IF 2 * r < den THEN q
           ELSE IF 2 * r > den THEN q + 1
           ELSE IF q % 2 = 0 THEN q ELSE q + 1
  IN  Max(0, Min(maxChannel, n))

\* p5 map(n, 0, totalImages, 0, 255) as the fraction <<numerator, denominator>>
map(n, start1, stop1, start2, stop2) ==
  << (n - start1) * (stop2 - start2) + start2 * (stop1 - start1), stop1 - start1 >>

----------------------------------------------------------------------------
(* p5.Image *)

createImage(w, h) ==
  [width |-> w, height |-> h,
   canvas |-> [k \in 0..(4 * w * h - 1) |-> 0],
   pixels |-> << >>]

loadPixels(img) == [img EXCEPT !.pixels = img.canvas]

updatePixels(img) == [img EXCEPT !.canvas = img.pixels]

\* element read of a pixel array: undefined (NaN in arithmetic) out of range
PixelAt(px, k) == IF k \in DOMAIN px THEN px[k] ELSE NaN

----------------------------------------------------------------------------
(* The image files.  File i holds an ImgW x ImgH picture; every pixel is    *)
(* white, dark or the grey whose brightness is exactly the default          *)
(* threshold.                                                              *)

FileIndices == 1..totalImages

white == <<255, 255, 255, 255>>
dark == <<50, 50, 50, 255>>
grey == <<200, 200, 200, 255>>
\* a colour whose weighted sum is 200 in real numbers and, rounded as the code
\* computes it, 200.00000000000003
tint200 == <<144, 226, 213, 255>>

\* the colour of cell (cx, cy) of file i, a picture w pixels wide
FilePixel(i, cx, cy, w) ==
  IF i % 2 = 1
    THEN IF cx = w - 1 \/ cy >= 1 THEN white ELSE dark
    ELSE IF cx = w - 1 \/ (cy >= 2 /\ cx >= 1) THEN white ELSE grey

\* the p5.Image of file i once loaded, for files of w x h pixels
LoadedImage(i, w, h) ==
  [width |-> w, height |-> h,
   canvas |-> [k \in 0..(4 * w * h - 1) |->
                 FilePixel(i, (k \div 4) % w, (k \div 4) \div w, w)[(k % 4) + 1]],
   pixels |-> << >>]

----------------------------------------------------------------------------
(* generateHeatMap *)

\* The brightness is computed in IEEE 754 double precision, as JavaScript does.
\* A double in [0, 256) is a multiple of 2^-56 with at most 53 significant bits;
\* it is held as that multiple, an integer below 2^64, written in base 2^16 with
\* the least significant element first.
Limb == 65536
mantissaBits == 53

\* the double NaN
NaNDouble == << >>

\* the doubles nearest to 0.299, 0.587 and 0.114
weightR == <<1572, 38273, 35651, 76, 0>>
weightG == <<33552, 51904, 17825, 150, 0>>
weightB == <<30409, 40894, 12058, 29, 0>>

\* the integer t as a double: t * 2^56
fromInteger(t) == <<0, 0, 0, (t * 256) % Limb, (t * 256) \div Limb>>

\* the exact product of a by a small integer k, from element i on with a carry
RECURSIVE timesFrom(_, _, _, _)
timesFrom(a, k, i, carry) ==
  IF i > Len(a) THEN << >>
  ELSE LET v == a[i] * k + carry
       IN  <<v % Limb>> \o timesFrom(a, k, i + 1, v \div Limb)

\* the exact sum of a and b, from element i on with a carry
RECURSIVE plusFrom(_, _, _, _)
plusFrom(a, b, i, carry) ==
  IF i > Len(a) THEN << >>
  ELSE LET v == a[i] + b[i] + carry
       IN  <<v % Limb>> \o plusFrom(a, b, i + 1, v \div Limb)

\* the number of significant bits of a
bitLength(a) ==
  LET top == {i \in 1..Len(a) : a[i] # 0}
  IN  IF top = {} THEN 0
      ELSE LET i == CHOOSE i \in top : \A k \in top : k <= i
           IN  16 * (i - 1) + bitsOf(a[i])

\* the double nearest to the exact value a, ties to even: at most 11 bits are
\* dropped, all of them in the first element
roundToDouble(a) ==
  the({LET d == bitLength(v) - mantissaBits
       IN  IF d <= 0 THEN v
           ELSE the({LET low == v[1] % p
                         odd == (v[1] \div p) % 2 = 1
                         down == [v EXCEPT ![1] = v[1] - low]
                     IN  IF 2 * low > p \/ (2 * low = p /\ odd)
                           THEN plusFrom(down, <<p, 0, 0, 0, 0>>, 1, 0)
                           ELSE down
                     : p \in {pow2(d)}})
       : v \in {a}})

\* a > b and a >= b for doubles, compared from the most significant element down
RECURSIVE compareFrom(_, _, _)
compareFrom(a, b, i) ==
  IF i = 0 THEN 0
  ELSE IF a[i] > b[i] THEN 1
  ELSE IF a[i] < b[i] THEN -1
  ELSE compareFrom(a, b, i - 1)
greater(a, b) == compareFrom(a, b, Len(a)) = 1

\* 0.299 * r + 0.587 * g + 0.114 * b, each product and each sum rounded to a
\* double, from left to right
weightedSum(r, g, b) ==
  the({the({roundToDouble(plusFrom(rg, p[3], 1, 0))
            : rg \in {roundToDouble(plusFrom(p[1], p[2], 1, 0))}})
       : p \in {<<roundToDouble(timesFrom(weightR, r, 1, 0)),
                  roundToDouble(timesFrom(weightG, g, 1, 0)),
                  roundToDouble(timesFrom(weightB, b, 1, 0))>>}})

\* the weighted sums of the colours of the image files, computed once
fileBrightness ==
  [c \in {<<k[1], k[2], k[3]>> : k \in {white, dark, grey, tint200}} |->
     weightedSum(c[1], c[2], c[3])]

\* the brightness of a pixel (lines 268-274); NaN when a channel is undefined
brightness(r, g, b) ==
  IF r = NaN \/ g = NaN \/ b = NaN THEN NaNDouble
  ELSE IF <<r, g, b>> \in DOMAIN fileBrightness THEN fileBrightness[<<r, g, b>>]
  ELSE weightedSum(r, g, b)

\* a test that also counts a pixel whose brightness equals the threshold
isSunnyOrEqual(img, x, y, t) ==
  LET imgIndex == (x + y * img.width) * 4
  IN  \E br \in {brightness(PixelAt(img.pixels, imgIndex),
                             PixelAt(img.pixels, imgIndex + 1),
                             PixelAt(img.pixels, imgIndex + 2))} :
        br # NaNDouble /\ ~greater(fromInteger(t), br)

\* brightness > threshold for pixel (x, y) of img; a comparison with NaN is false
isSunny(img, x, y, t) ==
  LET imgIndex == (x + y * img.width) * 4
  IN  \E br \in {brightness(PixelAt(img.pixels, imgIndex),
                             PixelAt(img.pixels, imgIndex + 1),
                             PixelAt(img.pixels, imgIndex + 2))} :
        br # NaNDouble /\ greater(br, fromInteger(t))

\* the loop over the images: sunnyCount for pixel (x, y)
sunnyCount(imgs, x, y, t) ==
  Cardinality({i \in 1..Len(imgs) : isSunny(imgs[i], x, y, t)})

\* the value stored in the heat map for sunnyCount n
sunValue(n) ==
  LET m == map(n, 0, totalImages, 0, maxChannel) IN ToUint8Clamp(m[1], m[2])

\* the loop over y for column x, from row y on: the heat map's pixel array after
\* it, given as the value of each element, which keeps the evaluation shallow for
\* high pictures.  The loop writes the four elements of each cell (x, cy) with
\* y <= cy < h and no other element.
heatMapColumn(px, imgs, t, x, y, w, h) ==
  [k \in DOMAIN px |->
     LET cx == (k \div 4) % w
         cy == (k \div 4) \div w
     IN  IF cx = x /\ cy >= y /\ cy < h
           THEN (IF k % 4 = 3 THEN maxChannel ELSE sunValue(sunnyCount(imgs, x, cy, t)))
           ELSE px[k]]

\* images.forEach(img => img.loadPixels())
loadAllPixels(imgs) == [i \in DOMAIN imgs |-> loadPixels(imgs[i])]

\* the loop over x of the synchronous generateHeatMap, from column x on
RECURSIVE heatMapColumns(_, _, _, _, _, _)
heatMapColumns(px, imgs, t, x, w, h) ==
  IF x >= w THEN px
  ELSE heatMapColumns(heatMapColumn(px, imgs, t, x, 0, w, h), imgs, t, x + 1, w, h)

\* the synchronous generateHeatMap: the heat map and the images after the call
generateHeatMapSync(hm, imgs, t, w, h) ==
  LET h1 == loadPixels(hm)
      im1 == loadAllPixels(imgs)
      px == heatMapColumns(h1.pixels, im1, t, 0, w, h)
  IN  [heatMap |-> updatePixels([h1 EXCEPT !.pixels = px]), images |-> im1]

\* the loop over x of the async generateHeatMap from column x up to its next
\* await (after a column with x % 20 = 0) or its end
RECURSIVE runToYield(_, _, _, _, _, _)
runToYield(px, imgs, t, x, w, h) ==
  IF x >= w THEN [pixels |-> px, x |-> x, done |-> TRUE]
  ELSE LET p2 == heatMapColumn(px, imgs, t, x, 0, w, h)
       IN  IF x % chunkColumns = 0
             THEN [pixels |-> p2, x |-> x + 1, done |-> FALSE]
             ELSE runToYield(p2, imgs, t, x + 1, w, h)

----------------------------------------------------------------------------
(* calculateRectangleScore *)

\* the loop over j for column i, rows j to jEnd - 1; the range is summed in halves,
\* which keeps the evaluation shallow for the default footprint
RECURSIVE scoreRows(_, _, _, _, _, _)
scoreRows(px, i, j, jEnd, w, h) ==
  IF j >= jEnd THEN 0
  ELSE IF jEnd = j + 1
    THEN (IF i >= 0 /\ i < w /\ j >= 0 /\ j < h THEN PixelAt(px, (i + j * w) * 4) ELSE 0)
    ELSE scoreRows(px, i, j, (j + jEnd) \div 2, w, h)
         + scoreRows(px, i, (j + jEnd) \div 2, jEnd, w, h)

\* the loop over i, columns i to iEnd - 1, summed in halves likewise
RECURSIVE scoreColumns(_, _, _, _, _, _, _)
scoreColumns(px, i, iEnd, jStart, jEnd, w, h) ==
  IF i >= iEnd THEN 0
  ELSE IF iEnd = i + 1
    THEN scoreRows(px, i, jStart, jEnd, w, h)
    ELSE scoreColumns(px, i, (i + iEnd) \div 2, jStart, jEnd, w, h)
         + scoreColumns(px, (i + iEnd) \div 2, iEnd, jStart, jEnd, w, h)

\* a sum whose loops run one column and one row further
rectangleSumInclusive(px, x, y, rw, rh, w, h) ==
  the({scoreColumns(px, e[1], e[2] + 1, e[3], e[4] + 1, w, h) :
         e \in {<<floor(minus(x, half(rw))), floor(plus(x, half(rw))),
                  floor(minus(y, half(rh))), floor(plus(y, half(rh)))>>}})

\* the sum over a pixel array px of a canvas of w x h pixels (lines 422-431)
rectangleSum(px, x, y, rw, rh, w, h) ==
  the({scoreColumns(px, e[1], e[2], e[3], e[4], w, h) :
         e \in {<<floor(minus(x, half(rw))), floor(plus(x, half(rw))),
                  floor(minus(y, half(rh))), floor(plus(y, half(rh)))>>}})

\* variant A: 0 when there is no heat map; hm is the heatMap variable's value
calculateRectangleScoreA(hm, x, y, rw, rh, w, h) ==
  IF hm = undefined THEN 0
  ELSE rectangleSum(loadPixels(hm[1]).pixels, x, y, rw, rh, w, h)

\* the heat map after a call of calculateRectangleScore: heatMap.loadPixels()
afterScore(hm) == IF hm = undefined THEN hm ELSE <<loadPixels(hm[1])>>

----------------------------------------------------------------------------
(* Variant A: src/unnamed/part_000 lines 1-481 *)

directions ==
  << [dx |-> 0, dy |-> -1], [dx |-> 1, dy |-> -1], [dx |-> 1, dy |-> 0],
     [dx |-> 1, dy |-> 1], [dx |-> 0, dy |-> 1], [dx |-> -1, dy |-> 1],
     [dx |-> -1, dy |-> 0], [dx |-> -1, dy |-> -1] >>

\* a bounds test without the test of the right edge
neighbourInBoundsNoRight(nx, ny, rw, rh, w, h) ==
  /\ ~lessThan(minus(nx, half(rw)), whole(0))
  /\ ~lessThan(minus(ny, half(rh)), whole(0))
  /\ lessThan(plus(ny, half(rh)), whole(h))

\* the bounds test of the hill climb for a rectangle of rw x rh centred at (nx, ny)
neighbourInBounds(nx, ny, rw, rh, w, h) ==
  /\ ~lessThan(minus(nx, half(rw)), whole(0))
  /\ lessThan(plus(nx, half(rw)), whole(w))
  /\ ~lessThan(minus(ny, half(rh)), whole(0))
  /\ lessThan(plus(ny, half(rh)), whole(h))

\* whether a neighbour's score replaces the best score so far
improves(score, bestScore) == score > bestScore

\* the neighbours of mr in the order of the directions: each in bounds with its
\* score (the code scores no other), the others null
scoredNeighbours(mr, hm, w, h) ==
  [k \in 1..Len(directions) |->
     the({IF neighbourInBounds(n[1], n[2], mr.w, mr.h, w, h)
            THEN <<[score |-> calculateRectangleScoreA(hm, n[1], n[2], mr.w, mr.h, w, h),
                    x |-> n[1], y |-> n[2]]>>
            ELSE null :
          n \in {<<plus(mr.x, whole(directions[k].dx)),
                   plus(mr.y, whole(directions[k].dy))>>}})]

\* the loop over the directions from the k-th on; best is [score, x, y]
RECURSIVE bestNeighbour(_, _, _)
bestNeighbour(scored, k, best) ==
  IF k > Len(scored) THEN best
  ELSE the({bestNeighbour(scored, k + 1, next) :
              next \in {IF scored[k] # null /\ improves(scored[k][1].score, best.score)
                          THEN scored[k][1]
                          ELSE best}})

\* a hill-climbing frame that moves the rectangle without storing the new score
hillClimbStepKeepsScore(mr, hm, perms, mv, w, h) ==
  the({IF best.score > mr.score
         THEN [movingRectangle |-> <<[mr EXCEPT !.x = best.x, !.y = best.y]>>,
               permanentRectangles |-> perms,
               moves |-> Append(mv, <<mr.x, mr.y>>)]
         ELSE [movingRectangle |-> null,
               permanentRectangles |-> Append(perms, [mr EXCEPT !.searching = FALSE]),
               moves |-> mv] :
       best \in {the({bestNeighbour(scored, 1,
                                      [score |-> mr.score, x |-> mr.x, y |-> mr.y]) :
                        scored \in {scoredNeighbours(mr, hm, w, h)}})}})

\* a hill-climbing frame that puts the frozen rectangle in front of the others
hillClimbStepPrepends(mr, hm, perms, mv, w, h) ==
  the({IF best.score > mr.score
         THEN [movingRectangle |-> <<[mr EXCEPT !.x = best.x, !.y = best.y,
                                                !.score = best.score]>>,
               permanentRectangles |-> perms,
               moves |-> Append(mv, <<mr.x, mr.y>>)]
         ELSE [movingRectangle |-> null,
               permanentRectangles |-> <<[mr EXCEPT !.searching = FALSE]>> \o perms,
               moves |-> mv] :
       best \in {the({bestNeighbour(scored, 1,
                                      [score |-> mr.score, x |-> mr.x, y |-> mr.y]) :
                        scored \in {scoredNeighbours(mr, hm, w, h)}})}})

\* one frame's hill climbing (lines 157-198) on moving rectangle mr:
\* the moving rectangle, the permanent rectangles and the positions left behind after it
hillClimbStep(mr, hm, perms, mv, w, h) ==
  the({IF best.score > mr.score
         THEN [movingRectangle |-> <<[mr EXCEPT !.x = best.x, !.y = best.y,
                                                !.score = best.score]>>,
               permanentRectangles |-> perms,
               moves |-> Append(mv, <<mr.x, mr.y>>)]
         ELSE [movingRectangle |-> null,
               permanentRectangles |-> Append(perms, [mr EXCEPT !.searching = FALSE]),
               moves |-> mv] :
       best \in {the({bestNeighbour(scored, 1,
                                      [score |-> mr.score, x |-> mr.x, y |-> mr.y]) :
                        scored \in {scoredNeighbours(mr, hm, w, h)}})}})

mouseInCanvas(mx, my, w, h) == mx >= 0 /\ mx < w /\ my >= 0 /\ my < h

\* the body of draw() for mouse position (mx, my), on the state given
drawFrame(loading, hm, mr, perms, mv, mx, my, w, h) ==
  IF loading \/ hm = undefined
    THEN [heatMap |-> hm, movingRectangle |-> mr, permanentRectangles |-> perms,
          moves |-> mv]
    ELSE LET climbing == mr # null /\ mr[1].searching
             hm1 == IF mouseInCanvas(mx, my, w, h) \/ climbing THEN afterScore(hm) ELSE hm
         IN  the({[heatMap |-> hm1, movingRectangle |-> step.movingRectangle,
                   permanentRectangles |-> step.permanentRectangles,
                   moves |-> step.moves] :
                  step \in {IF climbing
                              THEN hillClimbStep(mr[1], hm1, perms, mv, w, h)
                              ELSE [movingRectangle |-> mr, permanentRectangles |-> perms,
                                    moves |-> mv]}})

\* the state after setup() (lines 5-33): every load has been requested
InitA ==
  /\ images = << >>
  /\ pending = FileIndices
  /\ loaded = 0
  /\ heatMap = undefined
  /\ threshold = defaultThreshold
  /\ rectWidth = defaultRectWidth
  /\ rectHeight = defaultRectHeight
  /\ isVertical = TRUE
  /\ permanentRectangles = << >>
  /\ isLoading = TRUE
  /\ loadingStage = "images"
  /\ movingRectangle = null
  /\ width = canvasWidthA
  /\ height = canvasHeightA
  /\ gen = [pc |-> "none", x |-> 0]
  /\ notice = FALSE
  /\ moves = << >>
  /\ clicks = 0

\* callbacks that leave the loading screen up when no image has loaded
afterLoadAKeepsLoading(imgs) ==
  IF loaded + 1 = totalImages
    THEN IF Len(imgs) > 0
           THEN LET w == imgs[1].width
                    h == imgs[1].height
                    hm == loadPixels(createImage(w, h))
                    im1 == the({v : v \in {loadAllPixels(imgs)}})
                    run == the({runToYield(hm.pixels, v, threshold, 0, w, h) :
                                  v \in {loadAllPixels(imgs)}})
                IN  /\ width' = w
                    /\ height' = h
                    /\ images' = im1
                    /\ loadingStage' = "heatmap"
                    /\ IF run.done
                         THEN /\ heatMap' = <<updatePixels([hm EXCEPT !.pixels = run.pixels])>>
                              /\ gen' = [pc |-> "returned", x |-> run.x]
                         ELSE /\ heatMap' = <<[hm EXCEPT !.pixels = run.pixels]>>
                              /\ gen' = [pc |-> "await", x |-> run.x]
                    /\ isLoading' = TRUE
                    /\ UNCHANGED notice
           ELSE /\ notice' = TRUE
                /\ images' = imgs
                /\ UNCHANGED <<width, height, loadingStage, heatMap, gen, isLoading>>
    ELSE /\ images' = imgs
         /\ UNCHANGED <<width, height, loadingStage, heatMap, gen, isLoading, notice>>

\* lines 43-63 and 71-85: what both callbacks do once loaded is incremented,
\* with imgs the images array at that point
afterLoadA(imgs) ==
  IF loaded + 1 = totalImages
    THEN IF Len(imgs) > 0
           THEN LET w == imgs[1].width
                    h == imgs[1].height
                    hm == loadPixels(createImage(w, h))
                    im1 == the({v : v \in {loadAllPixels(imgs)}})
                    run == the({runToYield(hm.pixels, v, threshold, 0, w, h) :
                                  v \in {loadAllPixels(imgs)}})
                IN  /\ width' = w
                    /\ height' = h
                    /\ images' = im1
                    /\ loadingStage' = "heatmap"
                    /\ IF run.done
                         THEN /\ heatMap' = <<updatePixels([hm EXCEPT !.pixels = run.pixels])>>
                              /\ gen' = [pc |-> "returned", x |-> run.x]
                         ELSE /\ heatMap' = <<[hm EXCEPT !.pixels = run.pixels]>>
                              /\ gen' = [pc |-> "await", x |-> run.x]
                    /\ isLoading' = TRUE
                    /\ UNCHANGED notice
           ELSE /\ notice' = TRUE
                /\ isLoading' = FALSE
                /\ images' = imgs
                /\ UNCHANGED <<width, height, loadingStage, heatMap, gen>>
    ELSE /\ images' = imgs
         /\ UNCHANGED <<width, height, loadingStage, heatMap, gen, isLoading, notice>>

\* the success callback of loadImage (lines 40-64) with img the image loaded from file i
loadSuccessWith(i, img) ==
  /\ i \in pending
  /\ pending' = pending \ {i}
  /\ loaded' = loaded + 1
  /\ afterLoadA(Append(images, img))
  /\ UNCHANGED <<threshold, rectWidth, rectHeight, isVertical, permanentRectangles,
                 movingRectangle, moves, clicks>>

\* the success callback for file i where every file is a picture of ImgW x ImgH pixels
loadSuccessA(i) == loadSuccessWith(i, LoadedImage(i, ImgW, ImgH))

\* the error callback of loadImage for file i (lines 66-86)
loadErrorA(i) ==
  /\ i \in pending
  /\ pending' = pending \ {i}
  /\ loaded' = loaded + 1
  /\ afterLoadA(images)
  /\ UNCHANGED <<threshold, rectWidth, rectHeight, isVertical, permanentRectangles,
                 movingRectangle, moves, clicks>>

\* the timer of an await fires: generateHeatMap runs on to its next await or to its
\* end, where the promise resolves, isLoading is cleared and redraw() draws a frame
resumeGenerateHeatMapA(mx, my) ==
  /\ gen.pc \in {"await", "returned"}
  /\ \E run \in {IF gen.pc = "await"
                   THEN runToYield(heatMap[1].pixels, images, threshold, gen.x, width,
                                   height)
                   ELSE [pixels |-> heatMap[1].pixels, x |-> gen.x, done |-> TRUE]} :
       IF run.done
         THEN \E f \in {drawFrame(FALSE,
                                  IF gen.pc = "await"
                                    THEN <<updatePixels([heatMap[1] EXCEPT
                                                           !.pixels = run.pixels])>>
                                    ELSE heatMap,
                                  movingRectangle, permanentRectangles, moves, mx, my,
                                  width, height)} :
                /\ gen' = [pc |-> "done", x |-> run.x]
                /\ isLoading' = FALSE
                /\ heatMap' = f.heatMap
                /\ movingRectangle' = f.movingRectangle
                /\ permanentRectangles' = f.permanentRectangles
                /\ moves' = f.moves
         ELSE /\ gen' = [pc |-> "await", x |-> run.x]
              /\ heatMap' = <<[heatMap[1] EXCEPT !.pixels = run.pixels]>>
              /\ UNCHANGED <<isLoading, movingRectangle, permanentRectangles, moves>>
  /\ UNCHANGED <<images, pending, loaded, threshold, rectWidth, rectHeight, isVertical,
                 loadingStage, width, height, notice, clicks>>

\* one frame of the draw loop with the mouse at (mx, my)
drawA(mx, my) ==
  /\ UNCHANGED <<images, pending, loaded, threshold, rectWidth, rectHeight, isVertical,
                 isLoading, loadingStage, width, height, gen, notice, clicks>>
  /\ \E f \in {drawFrame(isLoading, heatMap, movingRectangle, permanentRectangles,
                          moves, mx, my, width, height)} :
       /\ heatMap' = f.heatMap
       /\ movingRectangle' = f.movingRectangle
       /\ permanentRectangles' = f.permanentRectangles
       /\ moves' = f.moves

\* keyPressed (lines 376-396)
keyPressedA(key) ==
  /\ IF key = " "
       THEN /\ isVertical' = ~isVertical
            /\ rectWidth' = rectHeight
            /\ rectHeight' = rectWidth
       ELSE IF key = "+" \/ key = "="
         THEN /\ rectWidth' = plus(rectWidth, whole(IF isVertical THEN 1 ELSE 2))
              /\ rectHeight' = plus(rectHeight, whole(IF isVertical THEN 2 ELSE 1))
              /\ atMost(rectWidth', whole(MaxRect))
              /\ atMost(rectHeight', whole(MaxRect))
              /\ UNCHANGED isVertical
       ELSE IF key = "-"
         THEN /\ rectWidth' =
                   max(whole(1), minus(rectWidth, whole(IF isVertical THEN 1 ELSE 2)))
              /\ rectHeight' =
                   max(whole(1), minus(rectHeight, whole(IF isVertical THEN 2 ELSE 1)))
              /\ UNCHANGED isVertical
       ELSE UNCHANGED <<rectWidth, rectHeight, isVertical>>
  /\ UNCHANGED <<images, pending, loaded, heatMap, threshold, permanentRectangles,
                 isLoading, loadingStage, movingRectangle, width, height, gen, notice,
                 moves, clicks>>

\* a click that freezes the search it replaces instead of dropping it
mousePressedAKeepsReplaced(mx, my) ==
  /\ IF mouseInCanvas(mx, my, width, height)
       THEN LET rectYOffset == minus(half(negated(rectHeight)), whole(cursorGap))
                y == plus(whole(my), rectYOffset)
                score == calculateRectangleScoreA(heatMap, whole(mx), y,
                                                  rectWidth, rectHeight, width, height)
            IN  /\ clicks < MaxClicks
                /\ heatMap' = afterScore(heatMap)
                /\ movingRectangle' = <<[x |-> whole(mx), y |-> y,
                                         w |-> rectWidth, h |-> rectHeight,
                                         score |-> score, searching |-> TRUE]>>
                /\ moves' = << >>
                /\ clicks' = clicks + 1
                /\ permanentRectangles' =
                     IF movingRectangle = null THEN permanentRectangles
                     ELSE Append(permanentRectangles,
                                 [movingRectangle[1] EXCEPT !.searching = FALSE])
       ELSE UNCHANGED <<heatMap, movingRectangle, moves, clicks, permanentRectangles>>
  /\ UNCHANGED <<images, pending, loaded, threshold, rectWidth, rectHeight, isVertical,
                 isLoading, loadingStage, width, height, gen, notice>>

\* mousePressed (lines 398-414) with the mouse at (mx, my)
mousePressedA(mx, my) ==
  /\ IF mouseInCanvas(mx, my, width, height)
       THEN LET rectYOffset == minus(half(negated(rectHeight)), whole(cursorGap))
                y == plus(whole(my), rectYOffset)
                score == calculateRectangleScoreA(heatMap, whole(mx), y,
                                                  rectWidth, rectHeight, width, height)
            IN  /\ clicks < MaxClicks
                /\ heatMap' = afterScore(heatMap)
                /\ movingRectangle' = <<[x |-> whole(mx), y |-> y,
                                         w |-> rectWidth, h |-> rectHeight,
                                         score |-> score, searching |-> TRUE]>>
                /\ moves' = << >>
                /\ clicks' = clicks + 1
       ELSE UNCHANGED <<heatMap, movingRectangle, moves, clicks>>
  /\ UNCHANGED <<images, pending, loaded, threshold, rectWidth, rectHeight, isVertical,
                 permanentRectangles, isLoading, loadingStage, width, height, gen, notice>>

\* The runs explored.  The loads of all files but the last PendingLoads end first,
\* in the order of their requests; then presses of '-' shrink the footprint.  The
\* user presses another key or clicks, and the last PendingLoads loads end, only
\* while the footprint is a whole number of pixels within MaxRect: from the default
\* footprint that is first the case at 1 x 1 px, after 80 presses of '-'.
early(i) == i <= totalImages - PendingLoads /\ \A k \in pending : i <= k
arrived == \A k \in pending : k > totalImages - PendingLoads
settled ==
  /\ arrived
  /\ rectWidth = whole(floor(rectWidth)) /\ atMost(rectWidth, whole(MaxRect))
  /\ rectHeight = whole(floor(rectHeight)) /\ atMost(rectHeight, whole(MaxRect))

\* the mouse positions and keys tried
MouseXs == {-1, 1, ImgW - 1}
MouseYs == {cursorGap - 1, ImgH - 3, ImgH - 1}
\* draw() reads the mouse only to decide whether it scores the cursor rectangle
DrawMouse == {<<-1, ImgH - 1>>, <<1, ImgH - 1>>}
KeysA == {" ", "+", "-", "s"}

\* the files of variant A: all but the last PendingLoads are missing
NextA ==
  \/ \E i \in FileIndices : early(i) /\ loadErrorA(i)
  \/ settled /\ \E i \in FileIndices : loadSuccessA(i)
  \/ settled /\ \E i \in FileIndices : loadErrorA(i)
  \/ \E m \in DrawMouse : resumeGenerateHeatMapA(m[1], m[2])
  \/ \E m \in DrawMouse : drawA(m[1], m[2])
  \/ \E key \in KeysA : (arrived /\ (key = "-" \/ settled)) /\ keyPressedA(key)
  \/ settled /\ \E mx \in MouseXs, my \in MouseYs : mousePressedA(mx, my)

SpecA == InitA /\ [][NextA]_vars

----------------------------------------------------------------------------
(* Variant C: src/sketch.js lines 1-316 *)

\* the p5.Image that loadImage returns before the file has loaded
blankImage == createImage(1, 1)

\* the state after setup() (lines 5-38): every load has been requested and images
\* holds the 90 objects that loadImage returned
InitC ==
  /\ pending = FileIndices
  /\ images = [i \in FileIndices |-> blankImage]
  /\ loaded = 0
  /\ heatMap = undefined
  /\ threshold = defaultThreshold
  /\ rectWidth = defaultRectWidth
  /\ rectHeight = defaultRectHeight
  /\ isVertical = TRUE
  /\ permanentRectangles = << >>
  /\ isLoading = TRUE
  /\ loadingStage = "images"
  /\ movingRectangle = null
  /\ width = canvasWidthC
  /\ height = canvasHeightC
  /\ gen = [pc |-> "none", x |-> 0]
  /\ notice = FALSE
  /\ moves = << >>
  /\ clicks = 0

\* the success callback of loadImage for file i (lines 45-63).  On the last file
\* isLoading is cleared (line 50) before resizeCanvas (line 55), which draws a frame
\* before it returns: draw() passes the heat map to image() (line 88), and while
\* the heat map is undefined that call throws, the exception ends the callback and
\* lines 58-61 do not run.
loadSuccessC(i) ==
  /\ i \in pending
  /\ pending' = pending \ {i}
  /\ loaded' = loaded + 1
  /\ LET imgs == [images EXCEPT ![i] = LoadedImage(i, ImgWC, ImgHC)]
     IN  IF loaded + 1 = totalImages
           THEN LET w == imgs[1].width
                    h == imgs[1].height
                IN  /\ isLoading' = FALSE
                    /\ width' = w
                    /\ height' = h
                    /\ IF heatMap = undefined
                         THEN /\ images' = imgs
                              /\ UNCHANGED heatMap
                         ELSE LET g == generateHeatMapSync(createImage(w, h), imgs,
                                                           threshold, w, h)
                              IN  /\ heatMap' = <<g.heatMap>>
                                  /\ images' = g.images
           ELSE /\ images' = imgs
                /\ UNCHANGED <<isLoading, width, height, heatMap>>
  /\ UNCHANGED <<threshold, rectWidth, rectHeight, isVertical, permanentRectangles,
                 loadingStage, movingRectangle, gen, notice, moves, clicks>>

\* the error callback of loadImage for file i (line 65)
loadErrorC(i) ==
  /\ i \in pending
  /\ pending' = pending \ {i}
  /\ UNCHANGED <<images, loaded, heatMap, threshold, rectWidth, rectHeight, isVertical,
                 permanentRectangles, isLoading, loadingStage, movingRectangle, width,
                 height, gen, notice, moves, clicks>>

\* one frame of draw() (lines 78-132) with the mouse at (mx, my); once isLoading is
\* cleared the frame throws at image(heatMap, 0, 0) while heatMap is undefined
drawC(mx, my) ==
  /\ heatMap' = IF ~isLoading /\ mouseInCanvas(mx, my, width, height)
                  THEN afterScore(heatMap) ELSE heatMap
  /\ UNCHANGED <<images, pending, loaded, threshold, rectWidth, rectHeight, isVertical,
                 permanentRectangles, isLoading, loadingStage, movingRectangle, width,
                 height, gen, notice, moves, clicks>>

\* a threshold step without the clamp to [0, 255]
nextThresholdUnclamped(t, up) ==
  IF up THEN t + thresholdStep ELSE t - thresholdStep

\* the threshold after UP (up = TRUE) or DOWN
nextThreshold(t, up) ==
  IF up THEN Min(t + thresholdStep, maxChannel) ELSE Max(t - thresholdStep, 0)

\* the heat map and images after the handler of UP or DOWN has set threshold to t:
\* generateHeatMap() throws at heatMap.loadPixels() while heatMap is undefined
rebuildC(hm, imgs, t, w, h) ==
  IF hm = undefined
    THEN [heatMap |-> hm, images |-> imgs]
    ELSE LET g == generateHeatMapSync(hm[1], imgs, t, w, h)
         IN  [heatMap |-> <<g.heatMap>>, images |-> g.images]

\* keyPressed (lines 255-283)
keyPressedC(key) ==
  /\ IF key \in {"UP", "DOWN"}
       THEN LET t == nextThreshold(threshold, key = "UP")
                g == rebuildC(heatMap, images, t, width, height)
            IN  /\ threshold' = t
                /\ heatMap' = g.heatMap
                /\ images' = g.images
                /\ UNCHANGED <<rectWidth, rectHeight, isVertical>>
       ELSE /\ UNCHANGED <<threshold, heatMap, images>>
            /\ IF key = " "
                 THEN /\ isVertical' = ~isVertical
                      /\ rectWidth' = rectHeight
                      /\ rectHeight' = rectWidth
                 ELSE IF key = "+" \/ key = "="
                   THEN /\ rectWidth' = plus(rectWidth, whole(IF isVertical THEN 1 ELSE 2))
                        /\ rectHeight' = plus(rectHeight, whole(IF isVertical THEN 2 ELSE 1))
                        /\ atMost(rectWidth', whole(MaxRect))
                        /\ atMost(rectHeight', whole(MaxRect))
                        /\ UNCHANGED isVertical
                 ELSE IF key = "-"
                   THEN /\ rectWidth' =
                             max(whole(1),
                                 minus(rectWidth, whole(IF isVertical THEN 1 ELSE 2)))
                        /\ rectHeight' =
                             max(whole(1),
                                 minus(rectHeight, whole(IF isVertical THEN 2 ELSE 1)))
                        /\ UNCHANGED isVertical
                 ELSE UNCHANGED <<rectWidth, rectHeight, isVertical>>
  /\ UNCHANGED <<pending, loaded, permanentRectangles, isLoading, loadingStage,
                 movingRectangle, width, height, gen, notice, moves, clicks>>

\* mousePressed (lines 285-298) with the mouse at (mx, my); calculateRectangleScore
\* throws at heatMap.loadPixels() while heatMap is undefined and nothing is pushed
mousePressedC(mx, my) ==
  /\ IF mouseInCanvas(mx, my, width, height) /\ heatMap # undefined
       THEN LET score == rectangleSum(loadPixels(heatMap[1]).pixels, whole(mx), whole(my),
                                      rectWidth, rectHeight, width, height)
            IN  /\ clicks < MaxClicks
                /\ heatMap' = afterScore(heatMap)
                /\ permanentRectangles' =
                     Append(permanentRectangles,
                            [x |-> whole(mx), y |-> whole(my), w |-> rectWidth,
                             h |-> rectHeight, score |-> score])
                /\ clicks' = clicks + 1
       ELSE UNCHANGED <<heatMap, permanentRectangles, clicks>>
  /\ UNCHANGED <<images, pending, loaded, threshold, rectWidth, rectHeight, isVertical,
                 isLoading, loadingStage, movingRectangle, width, height, gen, notice,
                 moves>>

\* The runs explored: the loads of all files but the last PendingLoads succeed
\* first, in the order of their requests, then presses of '-' shrink the footprint;
\* the user presses another key or clicks, and the last PendingLoads loads end,
\* only while the footprint is within MaxRect pixels
settledC ==
  /\ arrived
  /\ atMost(rectWidth, whole(MaxRect))
  /\ atMost(rectHeight, whole(MaxRect))

MouseC == {<<-1, 0>>, <<ImgWC - 1, ImgHC - 1>>}
KeysC == {"UP", "DOWN", " ", "+", "-", "s"}

NextC ==
  \/ \E i \in FileIndices : early(i) /\ loadSuccessC(i)
  \/ settledC /\ \E i \in FileIndices : loadSuccessC(i)
  \/ settledC /\ \E i \in FileIndices : loadErrorC(i)
  \/ drawC(0, 0)
  \/ \E key \in KeysC : (arrived /\ (key = "-" \/ settledC)) /\ keyPressedC(key)
  \/ settledC /\ \E m \in MouseC : mousePressedC(m[1], m[2])

SpecC == InitC /\ [][NextC]_vars

\* Variant C with the keyboard alone: every file loads and the keys are pressed
\* while the files load and after the last has loaded
NextKeys ==
  \/ \E i \in FileIndices : early(i) /\ loadSuccessC(i)
  \/ settledC /\ \E i \in FileIndices : loadSuccessC(i)
  \/ \E key \in KeysC : (arrived /\ (key = "-" \/ settledC)) /\ keyPressedC(key)

SpecKeys == InitC /\ [][NextKeys]_vars

\* Variant A on files of unequal size: the last file is a picture one pixel
\* narrower and one pixel lower than the others
mixedWidth(i) == IF i = totalImages THEN ImgW - 1 ELSE ImgW
mixedHeight(i) == IF i = totalImages THEN ImgH - 1 ELSE ImgH

\* the success callback for file i of those files
loadSuccessMixed(i) == loadSuccessWith(i, LoadedImage(i, mixedWidth(i), mixedHeight(i)))

NextMixed ==
  \/ \E i \in FileIndices : early(i) /\ loadErrorA(i)
  \/ settled /\ \E i \in FileIndices : loadSuccessMixed(i)
  \/ settled /\ \E i \in FileIndices : loadErrorA(i)
  \/ \E m \in DrawMouse : resumeGenerateHeatMapA(m[1], m[2])
  \/ \E m \in DrawMouse : drawA(m[1], m[2])
  \/ \E key \in KeysA : (arrived /\ (key = "-" \/ settled)) /\ keyPressedA(key)
  \/ settled /\ \E mx \in MouseXs, my \in MouseYs : mousePressedA(mx, my)

SpecMixed == InitA /\ [][NextMixed]_vars

\* the draw loop never stops: while the rectangle is searching, where every frame
\* changes the state, frames keep being drawn
searching ==
  ~isLoading /\ heatMap # undefined /\ movingRectangle # null /\ movingRectangle[1].searching
SpecAFair ==
  SpecA /\ ([]<>(~searching) \/ []<><<\E m \in DrawMouse : drawA(m[1], m[2])>>_vars)

----------------------------------------------------------------------------
(* calculateRectangleScore on its own: variant A once the heat map is finished, *)
(* on pictures high enough that the top edge of the default footprint falls    *)
(* inside the grid; mousePressed applies the function at the centre it derives *)
(* from a mouse position inside the canvas                                     *)

\* size of the image files of these runs
ScoreImgW == 3
ScoreImgH == 50

\* the files whose loading ends last in the runs of variant A, in each order of arrival
Arrivals ==
  LET P == (totalImages - PendingLoads + 1)..totalImages
  IN  {<<i>> : i \in P} \cup {a \in P \X P : a[1] # a[2]}

\* the footprint after k presses of '-' on the default footprint (lines 391-393)
footprintAfterMinus(k) ==
  <<max(whole(1), minus(defaultRectWidth, whole(k))),
    max(whole(1), minus(defaultRectHeight, whole(2 * k)))>>

\* presses of '-': none, the last with a height above 1 px, the last with a width
\* above 1 px, and the first that leaves 1 x 1 px
MinusPresses == {0, 19, 79, 80}

\* the heat map is finished for one of the arrivals A and the footprint is one of
\* F, each <<rectWidth, rectHeight, isVertical>>
InitScoreOf(A, F) ==
  /\ \E a \in A :
       LET imgs == [k \in 1..Len(a) |-> LoadedImage(a[k], ScoreImgW, ScoreImgH)]
           g == generateHeatMapSync(createImage(ScoreImgW, ScoreImgH), imgs,
                                    defaultThreshold, ScoreImgW, ScoreImgH)
       IN  /\ images = g.images
           /\ heatMap = <<g.heatMap>>
  /\ \E f \in F :
       /\ rectWidth = f[1]
       /\ rectHeight = f[2]
       /\ isVertical = f[3]
  /\ pending = {}
  /\ loaded = totalImages
  /\ threshold = defaultThreshold
  /\ permanentRectangles = << >>
  /\ isLoading = FALSE
  /\ loadingStage = "heatmap"
  /\ movingRectangle = null
  /\ width = ScoreImgW
  /\ height = ScoreImgH
  /\ gen = [pc |-> "done", x |-> ScoreImgW]
  /\ notice = FALSE
  /\ moves = << >>
  /\ clicks = 0

InitScore ==
  InitScoreOf(Arrivals,
              {<<footprintAfterMinus(k)[1], footprintAfterMinus(k)[2], TRUE>> :
                 k \in MinusPresses})

\* mouse positions inside the canvas: the rectangle lies above the grid, over its
\* first rows, and with the top edge of the default footprint inside row 0
ScoreMouseXs == {1, ScoreImgW - 1}
ScoreMouseYs == {cursorGap + 1, cursorGap + 3, ScoreImgH - 1}

NextScore == \E mx \in ScoreMouseXs, my \in ScoreMouseYs : mousePressedA(mx, my)

SpecScore == InitScore /\ [][NextScore]_vars

\* calculateRectangleScore and the percentage drawn from it, once every file has
\* loaded: the footprints are those after the presses of '-' and those flipped by
\* a press of space after them
AllArrived == {[i \in FileIndices |-> i]}

PercentFootprints ==
  {<<footprintAfterMinus(k)[1], footprintAfterMinus(k)[2], TRUE>> : k \in MinusPresses}
    \cup {<<footprintAfterMinus(k)[2], footprintAfterMinus(k)[1], FALSE>> :
            k \in MinusPresses}

InitPercent == InitScoreOf(Arrivals \cup AllArrived, PercentFootprints)

\* mouse positions inside the canvas whose rectangle lies over rows 1 to 3
PercentMouseXs == {1, ScoreImgW - 1}
PercentMouseYs == {cursorGap + 3, cursorGap + 4}

NextPercent == \E mx \in PercentMouseXs, my \in PercentMouseYs : mousePressedA(mx, my)

SpecPercent == InitPercent /\ [][NextPercent]_vars

----------------------------------------------------------------------------
(* generateHeatMap on pictures with tinted pixels: variant A where the files are *)
(* pictures of TintImgW x TintImgH pixels.  All but the last PendingLoads load   *)
(* in the order of their requests; the last ones load or fail in any order.      *)

\* the colour of cell (cx, cy) of file i: the first cell of every third file is
\* tinted, that of the file after it is the grey of the default threshold and that
\* of the file before it is white
TintedPixel(i, cx, cy, w) ==
  IF cx = 0 /\ cy = 0
    THEN (IF i % 3 = 0 THEN tint200 ELSE IF i % 3 = 1 THEN grey ELSE white)
    ELSE FilePixel(i, cx, cy, w)

\* the p5.Image of file i once loaded
TintedImage(i, w, h) ==
  [width |-> w, height |-> h,
   canvas |-> [n \in 0..(4 * w * h - 1) |->
                 TintedPixel(i, (n \div 4) % w, (n \div 4) \div w, w)[(n % 4) + 1]],
   pixels |-> << >>]

\* the success callback for file i
loadSuccessTinted(i) == loadSuccessWith(i, TintedImage(i, TintImgW, TintImgH))

NextBuild ==
  \/ \E i \in FileIndices : early(i) /\ loadSuccessTinted(i)
  \/ \E i \in FileIndices : arrived /\ loadSuccessTinted(i)
  \/ \E i \in FileIndices : arrived /\ loadErrorA(i)
  \/ \E m \in DrawMouse : resumeGenerateHeatMapA(m[1], m[2])
  \/ \E m \in DrawMouse : drawA(m[1], m[2])

SpecBuild == InitA /\ [][NextBuild]_vars

----------------------------------------------------------------------------
(* The hill climb on two finished heat maps: variant A once all 90 files have   *)
(* loaded and generateHeatMap has finished, the footprint set by the keys, then *)
(* one click inside the canvas and the frames drawn after it.                   *)

ScenarioNames == {"peak", "uniform"}

\* the pictures: those of "peak" are 5 pixels wide and sunny in cell (2, 2) only,
\* in every file, so that the heat map holds 255 there and 0 elsewhere; those of
\* "uniform" are 10 pixels wide and sunny all over in 35 of the 90 files, so that
\* every cell of the heat map holds 99.  Below the 5 and the 10 first rows they
\* have the rows a click needs to place a rectangle on those (lines 399-402).
scenarioWidth(s) == IF s = "peak" THEN 5 ELSE 10
scenarioHeight(s) == IF s = "peak" THEN 14 ELSE 15

\* the colour of cell (cx, cy) of file i
ScenarioPixel(s, i, cx, cy) ==
  IF s = "peak"
    THEN (IF cx = 2 /\ cy = 2 THEN white ELSE dark)
    ELSE (IF i <= 35 THEN white ELSE dark)

\* the p5.Image of file i once loaded
ScenarioImage(s, i) ==
  [width |-> scenarioWidth(s), height |-> scenarioHeight(s),
   canvas |-> [n \in 0..(4 * scenarioWidth(s) * scenarioHeight(s) - 1) |->
                 ScenarioPixel(s, i, (n \div 4) % scenarioWidth(s),
                               (n \div 4) \div scenarioWidth(s))[(n % 4) + 1]],
   pixels |-> << >>]

\* the footprint <<rectWidth, rectHeight, isVertical>>: 1 x 1 after 80 presses of
\* '-' on the default footprint; 3 x 2 after a press of '+', which makes it 2 x 3,
\* and a press of space on top of those (lines 380-393)
scenarioFootprint(s) ==
  IF s = "peak"
    THEN <<footprintAfterMinus(80)[1], footprintAfterMinus(80)[2], TRUE>>
    ELSE <<plus(footprintAfterMinus(80)[2], whole(2)),
           plus(footprintAfterMinus(80)[1], whole(1)), FALSE>>

InitClimb ==
  /\ \E s \in ScenarioNames :
       /\ \E g \in {generateHeatMapSync(
                        createImage(scenarioWidth(s), scenarioHeight(s)),
                        [i \in FileIndices |-> ScenarioImage(s, i)],
                        defaultThreshold, scenarioWidth(s), scenarioHeight(s))} :
            /\ images = g.images
            /\ heatMap = <<g.heatMap>>
       /\ width = scenarioWidth(s)
       /\ height = scenarioHeight(s)
       /\ gen = [pc |-> "done", x |-> scenarioWidth(s)]
       /\ rectWidth = scenarioFootprint(s)[1]
       /\ rectHeight = scenarioFootprint(s)[2]
       /\ isVertical = scenarioFootprint(s)[3]
  /\ pending = {}
  /\ loaded = totalImages
  /\ threshold = defaultThreshold
  /\ permanentRectangles = << >>
  /\ isLoading = FALSE
  /\ loadingStage = "heatmap"
  /\ movingRectangle = null
  /\ notice = FALSE
  /\ moves = << >>
  /\ clicks = 0

\* the mouse positions of the click: every pixel of the left half of the canvas
\* from row 9 to row 14
ClimbMouseXs == 0..5
ClimbMouseYs == (cursorGap + 1)..(cursorGap + 6)

NextClimb ==
  \/ \E mx \in ClimbMouseXs, my \in ClimbMouseYs : clicks = 0 /\ mousePressedA(mx, my)
  \/ \E m \in DrawMouse : drawA(m[1], m[2])

SpecClimb == InitClimb /\ [][NextClimb]_vars

----------------------------------------------------------------------------
(* Properties of variant A *)

\* the heat map has been generated and the loading screen is gone
Ready == ~isLoading /\ heatMap # undefined

\* the score of a rectangle on the heat map as it is now
currentScore(x, y, rw, rh) ==
  calculateRectangleScoreA(heatMap, x, y, rw, rh, width, height)

\* the rectangle of rw x rh centred at (x, y) lies within the canvas, edges included
fullyInside(x, y, rw, rh) ==
  /\ atMost(whole(0), exactDifference(x, half(rw)))
  /\ atMost(exactSum(x, half(rw)), whole(width))
  /\ atMost(whole(0), exactDifference(y, half(rh)))
  /\ atMost(exactSum(y, half(rh)), whole(height))

\* the centre of the k-th neighbour of rectangle r
neighbourX(r, k) == plus(r.x, whole(directions[k].dx))
neighbourY(r, k) == plus(r.y, whole(directions[k].dy))

IsPrefix(s, t) == Len(s) <= Len(t) /\ SubSeq(t, 1, Len(s)) = s

\* C1: a search makes at most width * height moves, and the rectangle is not
\* searching forever on a finished heat map unless clicks keep replacing it
C1_Termination ==
  /\ [](IF heatMap = undefined THEN Len(moves) = 0
        ELSE Len(moves) <= heatMap[1].width * heatMap[1].height)
  /\ \/ []<>(~(Ready /\ movingRectangle # null))
     \/ []<><<clicks' # clicks>>_vars

\* a search has frozen after two or more moves
C1_Witness ==
  /\ Ready
  /\ movingRectangle = null
  /\ Len(moves) >= 2
  /\ Len(permanentRectangles) >= 1

\* C2: no neighbour that lies fully inside the grid, edges included, scores more
\* than a frozen placement
C2_LocalOptimum ==
  Ready =>
    \A n \in 1..Len(permanentRectangles) : \A k \in 1..Len(directions) :
      LET r == permanentRectangles[n]
      IN  fullyInside(neighbourX(r, k), neighbourY(r, k), r.w, r.h)
            => currentScore(neighbourX(r, k), neighbourY(r, k), r.w, r.h) <= r.score

\* C3: every position the hill climb moves the rectangle to keeps the whole
\* rectangle inside the grid
C3_InBoundsMoves ==
  [][Len(moves') = Len(moves) + 1 =>
       /\ movingRectangle' # null
       /\ LET r == movingRectangle'[1]
          IN  /\ atMost(whole(0), exactDifference(r.x, half(r.w)))
              /\ atMost(exactSum(r.x, half(r.w)), whole(width'))
              /\ atMost(whole(0), exactDifference(r.y, half(r.h)))
              /\ atMost(exactSum(r.y, half(r.h)), whole(height'))]_vars

\* the neighbours of r that the hill climb may move to on heat map hm
candidates(hm, r) ==
  {k \in 1..Len(directions) :
     neighbourInBounds(neighbourX(r, k), neighbourY(r, k), r.w, r.h,
                       hm[1].width, hm[1].height)}
neighbourScore(hm, r, k) ==
  calculateRectangleScoreA(hm, neighbourX(r, k), neighbourY(r, k), r.w, r.h,
                           hm[1].width, hm[1].height)
isGreatest(hm, r, k) ==
  /\ k \in candidates(hm, r)
  /\ \A j \in candidates(hm, r) : neighbourScore(hm, r, j) <= neighbourScore(hm, r, k)
\* the first direction, in the order N NE E SE S SW W NW, of greatest score
firstGreatest(hm, r, k) ==
  isGreatest(hm, r, k) /\ \A j \in 1..(k - 1) : ~isGreatest(hm, r, j)

\* a move has left a position where a neighbour partly off the grid had a clipped
\* score above that of the neighbour moved to, the best inside the grid
C3_Witness ==
  /\ Ready
  /\ movingRectangle # null
  /\ Len(moves) >= 1
  /\ \E k \in 1..Len(directions) :
       LET r == movingRectangle[1]
           q == [r EXCEPT !.x = moves[Len(moves)][1], !.y = moves[Len(moves)][2]]
       IN  /\ r.x = neighbourX(q, k) /\ r.y = neighbourY(q, k)
           /\ firstGreatest(heatMap, q, k)
           /\ r.score = neighbourScore(heatMap, q, k)
           /\ \E j \in 1..Len(directions) :
                /\ ~fullyInside(neighbourX(q, j), neighbourY(q, j), q.w, q.h)
                /\ neighbourScore(heatMap, q, j) > r.score

\* the neighbours of r whose rectangle lies fully inside the grid, a rectangle whose
\* right or bottom edge is the grid's included
insideNeighbours(r) ==
  {k \in 1..Len(directions) : fullyInside(neighbourX(r, k), neighbourY(r, k), r.w, r.h)}
\* the first direction, in the order N NE E SE S SW W NW, whose neighbour has the
\* greatest score on hm among those fully inside the grid
firstGreatestInside(hm, r, k) ==
  /\ k \in insideNeighbours(r)
  /\ \A j \in insideNeighbours(r) : neighbourScore(hm, r, j) <= neighbourScore(hm, r, k)
  /\ \A j \in insideNeighbours(r) :
       j < k => neighbourScore(hm, r, j) < neighbourScore(hm, r, k)

\* C4: in a hill-climb step on the finished heat map (the frame records a move or
\* freezes the rectangle) of a rectangle that holds the score of its position, when
\* several neighbours fully inside the grid share the greatest score among them and
\* it is strictly greater than the rectangle's score, the rectangle moves to the
\* first neighbour of that score in the fixed order and takes its score
C4_TieBreak ==
  [][(/\ Ready
      /\ movingRectangle # null
      /\ (Len(moves') = Len(moves) + 1 \/ movingRectangle' = null)
      /\ movingRectangle[1].score
           = currentScore(movingRectangle[1].x, movingRectangle[1].y,
                          movingRectangle[1].w, movingRectangle[1].h))
       => \A k \in 1..Len(directions) :
            (/\ firstGreatestInside(heatMap, movingRectangle[1], k)
             /\ \E j \in insideNeighbours(movingRectangle[1]) \ {k} :
                  neighbourScore(heatMap, movingRectangle[1], j)
                    = neighbourScore(heatMap, movingRectangle[1], k)
             /\ neighbourScore(heatMap, movingRectangle[1], k)
                  > movingRectangle[1].score)
              => movingRectangle' =
                   <<[movingRectangle[1] EXCEPT
                        !.x = neighbourX(movingRectangle[1], k),
                        !.y = neighbourY(movingRectangle[1], k),
                        !.score = neighbourScore(heatMap, movingRectangle[1], k)]>>]_vars

\* C5: the permanent rectangles only grow at the end, by a copy of the moving
\* rectangle when it freezes, and the moving rectangle is cleared by nothing else
C5_AppendOnly ==
  [][/\ IsPrefix(permanentRectangles, permanentRectangles')
     /\ (permanentRectangles' # permanentRectangles
           \/ (movingRectangle # null /\ movingRectangle' = null))
          => /\ movingRectangle # null
             /\ movingRectangle[1].searching
             /\ permanentRectangles' =
                  Append(permanentRectangles,
                         [movingRectangle[1] EXCEPT !.searching = FALSE])
             /\ movingRectangle' = null]_vars

\* a second placement has been appended behind the first while a key was pressed
\* in between
C5_Witness ==
  /\ Len(permanentRectangles) = 2
  /\ movingRectangle = null
  /\ permanentRectangles[1].w # permanentRectangles[2].w

\* C7: every stored score is the score of its rectangle on the finished heat map
C7_StoredScoresTrue ==
  Ready =>
    /\ \A n \in 1..Len(permanentRectangles) :
         LET r == permanentRectangles[n]
         IN  r.score = currentScore(r.x, r.y, r.w, r.h)
    /\ movingRectangle # null =>
         movingRectangle[1].score =
           currentScore(movingRectangle[1].x, movingRectangle[1].y,
                        movingRectangle[1].w, movingRectangle[1].h)

\* Math.round of num/den for num >= 0, den > 0
round(num, den) == (2 * num + den) \div (2 * den)

\* C8: every cell of the generated heat map is round(count / N * 255) with N the
\* number of images aggregated
C8_CellFormula ==
  (Ready /\ gen.pc = "done") =>
    \A x \in 0..(width - 1), y \in 0..(height - 1) :
      heatMap[1].pixels[(x + y * width) * 4]
        = round(sunnyCount(images, x, y, threshold) * maxChannel, Len(images))

\* C10: the chunked generateHeatMap ends with the heat map of the synchronous one
C10_ChunkingEquivalent ==
  (heatMap # undefined /\ gen.pc = "done") =>
    heatMap[1].canvas =
      generateHeatMapSync(createImage(width, height), images, threshold,
                          width, height).heatMap.canvas

----------------------------------------------------------------------------
(* Properties of calculateRectangleScore *)

\* the sum of the red channel of px over those of the cells numbered lo to hi, row by
\* row, that are in the set cells of a grid w wide; the range is summed in halves
RECURSIVE cellSumBetween(_, _, _, _, _)
cellSumBetween(px, cells, w, lo, hi) ==
  IF lo > hi THEN 0
  ELSE IF lo = hi
    THEN (IF <<lo % w, lo \div w>> \in cells THEN PixelAt(px, lo * 4) ELSE 0)
    ELSE cellSumBetween(px, cells, w, lo, (lo + hi) \div 2)
         + cellSumBetween(px, cells, w, (lo + hi) \div 2 + 1, hi)

\* the sum of the red channel of px over a set of cells of a grid w wide
cellSum(px, cells, w) ==
  cellSumBetween(px, cells, w, 0, Cardinality(DOMAIN px) \div 4 - 1)

\* the cells of the grid between the floors of the edges of rectangle r, each edge
\* the double that x - w / 2, x + w / 2, y - h / 2 or y + h / 2 evaluates to
floorCells(r) ==
  {c \in (0..(width - 1)) \X (0..(height - 1)) :
     /\ floor(minus(r.x, half(r.w))) <= c[1] /\ c[1] < floor(plus(r.x, half(r.w)))
     /\ floor(minus(r.y, half(r.h))) <= c[2] /\ c[2] < floor(plus(r.y, half(r.h)))}

\* the centre k + 0.5 of column or row k
cellCentre(k) == <<k, Frac \div 2, 0>>

\* the cells of the grid whose centre lies in the half-open rectangle r, in real
\* numbers
centreCells(r) ==
  {c \in (0..(width - 1)) \X (0..(height - 1)) :
     /\ atMost(exactDifference(r.x, half(r.w)), cellCentre(c[1]))
     /\ lessThan(cellCentre(c[1]), exactSum(r.x, half(r.w)))
     /\ atMost(exactDifference(r.y, half(r.h)), cellCentre(c[2]))
     /\ lessThan(cellCentre(c[2]), exactSum(r.y, half(r.h)))}

\* C6 as stated: the score is the sum over the cells whose centre lies in
\* [cx - w/2, cx + w/2) x [cy - h/2, cy + h/2)
C6_CentreFootprint ==
  movingRectangle # null =>
    movingRectangle[1].score
      = cellSum(heatMap[1].canvas, centreCells(movingRectangle[1]), width)

\* C6: the score is the sum over the cells (i, j) of the grid with
\* floor(cx - w/2) <= i < floor(cx + w/2) and floor(cy - h/2) <= j < floor(cy + h/2),
\* each edge being the double the code computes; cells outside the grid add nothing
C6_FloorFootprint ==
  movingRectangle # null =>
    movingRectangle[1].score
      = cellSum(heatMap[1].canvas, floorCells(movingRectangle[1]), width)

\* the default footprint has been scored where the floors of its edges take in a
\* column and a row of lit cells whose centres lie outside it
C6_Witness ==
  /\ movingRectangle # null
  /\ movingRectangle[1].w = defaultRectWidth
  /\ movingRectangle[1].h = defaultRectHeight
  /\ movingRectangle[1].score > 0
  /\ centreCells(movingRectangle[1]) # floorCells(movingRectangle[1])
  /\ movingRectangle[1].score
       # cellSum(heatMap[1].canvas, centreCells(movingRectangle[1]), width)

----------------------------------------------------------------------------
(* Properties of variant C *)

\* the brightness of pixel (x, y) of image img, from its bitmap
brightnessAt(img, x, y) ==
  LET n == (x + y * img.width) * 4
  IN  brightness(PixelAt(img.canvas, n), PixelAt(img.canvas, n + 1),
                 PixelAt(img.canvas, n + 2))

\* the number of images whose pixel (x, y) is brighter than threshold t
sunnyFiles(x, y, t) ==
  Cardinality({i \in 1..Len(images) :
                 \E br \in {brightnessAt(images[i], x, y)} :
                   br # NaNDouble /\ greater(br, fromInteger(t))})

\* v is the integer nearest to 255 * n / totalImages, the even one of two
isGridValue(v, n) ==
  LET d == totalImages * v - maxChannel * n
  IN  /\ 2 * d <= totalImages /\ -2 * d <= totalImages
      /\ (2 * d = totalImages \/ -2 * d = totalImages) => v % 2 = 0

\* the heat map hm is the aggregation of the images at threshold t
isAggregation(hm, t) ==
  /\ hm # undefined
  /\ hm[1].pixels = hm[1].canvas
  /\ \A x \in 0..(width - 1), y \in 0..(height - 1) :
       LET index == (x + y * width) * 4
           px == hm[1].canvas
       IN  /\ isGridValue(px[index], sunnyFiles(x, y, t))
           /\ px[index + 1] = px[index]
           /\ px[index + 2] = px[index]
           /\ px[index + 3] = maxChannel

\* C9: every press of UP or DOWN that changes the threshold leaves a heat map that
\* is the aggregation of the images at the new threshold, and leaves the bitmap of
\* every image as it was
C9_GridFollowsThreshold ==
  [][threshold' # threshold =>
       /\ isAggregation(heatMap, threshold)'
       /\ \A i \in FileIndices : images'[i].canvas = images[i].canvas]_vars

----------------------------------------------------------------------------
(* Properties of the loaders *)

\* C11: once every load attempt has ended by its success or its error callback,
\* with at least one success, the heat map has been generated and the loading
\* state is over (variant C generates within the last callback)
C11_FailedLoadsDoNotAbort ==
  (pending = {} /\ loaded >= 1) => (heatMap # undefined /\ ~isLoading)

\* C12: when every load attempt fails, generateHeatMap is never called and no heat
\* map is created, so no score is read from a grid and nothing is frozen or moved;
\* the loading state ends and the notice is shown once the last attempt has failed,
\* and the notice is shown in no other case
C12_EmptyInputReported ==
  /\ Len(images) = 0 =>
       /\ heatMap = undefined
       /\ gen.pc = "none"
       /\ permanentRectangles = << >>
       /\ moves = << >>
       /\ movingRectangle # null => movingRectangle[1].score = 0
  /\ (pending = {} /\ Len(images) = 0) => (~isLoading /\ notice)
  /\ notice => (pending = {} /\ Len(images) = 0)

\* every load has failed, the notice is up and the canvas has been clicked since
C12_Witness ==
  /\ pending = {}
  /\ Len(images) = 0
  /\ notice
  /\ ~isLoading
  /\ clicks = MaxClicks
  /\ movingRectangle # null

\* the images of imgs all have the same width and the same height
sameSize(imgs) ==
  \A i \in 1..Len(imgs), j \in 1..Len(imgs) :
    imgs[i].width = imgs[j].width /\ imgs[i].height = imgs[j].height

\* C13: when the loaded images differ in size, generateHeatMap does not run to its
\* end and leaves no finished grid
C13_MismatchRejected ==
  ~sameSize(images) => gen.pc # "done"

----------------------------------------------------------------------------
(* Properties of the placements of variant A *)

\* rectangle r covers no point inside the grid
entirelyOutside(r) ==
  \/ atMost(exactSum(r.x, half(r.w)), whole(0))
  \/ atMost(whole(width), exactDifference(r.x, half(r.w)))
  \/ atMost(exactSum(r.y, half(r.h)), whole(0))
  \/ atMost(whole(height), exactDifference(r.y, half(r.h)))

\* C14: on the finished heat map, a click never starts a search on a rectangle that
\* lies entirely outside the grid, and no such rectangle is appended to the
\* permanent rectangles
C14_OutOfBoundsRejected ==
  [][Ready =>
       /\ (clicks' # clicks /\ movingRectangle' # movingRectangle)
            => ~entirelyOutside(movingRectangle'[1])
       /\ Len(permanentRectangles') > Len(permanentRectangles)
            => ~entirelyOutside(permanentRectangles'[Len(permanentRectangles')])]_vars

\* the digits, base 4096 and lowest first, of 2^48 times a length v that is not
\* negative
digitsOf(v) ==
  <<v[3] % 4096, v[3] \div 4096, v[2] % 4096, v[2] \div 4096,
    v[1] % 4096, v[1] \div 4096, 0, 0>>

\* the digits of the number with the column sums c, lowest first: those from column
\* k on, given the carry of the columns below
RECURSIVE carriedDigits(_, _, _)
carriedDigits(c, k, carry) ==
  IF k > Len(c) THEN << >>
  ELSE <<(c[k] + carry) % 4096>> \o carriedDigits(c, k + 1, (c[k] + carry) \div 4096)

\* the sum of a[i] * b[k + 1 - i] over the digits i..Len(a) of a
RECURSIVE columnSum(_, _, _, _)
columnSum(a, b, k, i) ==
  IF i > Len(a) THEN 0
  ELSE (IF k + 1 - i >= 1 /\ k + 1 - i <= Len(b) THEN a[i] * b[k + 1 - i] ELSE 0)
         + columnSum(a, b, k, i + 1)

\* the whole part of 255 * rw * rh in real numbers, for the sides rw and rh of a
\* footprint: the score of a rectangle that is in full sun all over
fullSunScore(rw, rh) ==
  LET a == carriedDigits([k \in 1..8 |-> maxChannel * digitsOf(rw)[k]], 1, 0)
      b == digitsOf(rh)
      p == carriedDigits([k \in 1..16 |-> columnSum(a, b, k, 1)], 1, 0)
  IN  p[9] + 4096 * p[10] + 4096 * 4096 * p[11]

\* C15: the daylight percentage of a scored rectangle lies in [0, 100], that is,
\* its score is at least 0 and at most 255 * w * h
C15_PercentageInRange ==
  movingRectangle # null =>
    LET r == movingRectangle[1]
    IN  0 <= r.score /\ r.score <= fullSunScore(r.w, r.h)

----------------------------------------------------------------------------
(* Properties of the threshold and of the footprint *)

\* the value generateHeatMap stores for cell (x, y) of the images at threshold t
cellAt(t, x, y) == sunValue(sunnyCount(images, x, y, t))

\* the images whose pixel (x, y) has a brightness of exactly t
equalFiles(x, y, t) ==
  {i \in 1..Len(images) : brightnessAt(images[i], x, y) = fromInteger(t)}

\* the images whose pixel (x, y) has a tinted colour, which is as bright as t in
\* real numbers and brighter as the code computes it
tintedFiles(x, y, t) ==
  {i \in 1..Len(images) :
     LET n == (x + y * images[i].width) * 4
         c == <<images[i].canvas[n], images[i].canvas[n + 1], images[i].canvas[n + 2]>>
     IN  /\ 299 * c[1] + 587 * c[2] + 114 * c[3] = 1000 * t
         /\ greater(brightnessAt(images[i], x, y), fromInteger(t))}

\* C16: for the images of a finished heat map, the cell generateHeatMap computes at
\* a threshold is at most the cell it computes at any lower threshold; every cell
\* of the heat map built is at least the cell computed from the same images at any
\* higher threshold and at most the cell computed at any lower one; and a pixel as
\* bright as the threshold is not counted: the cell is the value for the number of
\* images whose brightness, as the code computes it, is strictly above the
\* threshold
C16_ThresholdMonotone ==
  (heatMap # undefined /\ gen.pc = "done") =>
    \A x \in 0..(width - 1), y \in 0..(height - 1) :
      LET v == heatMap[1].canvas[(x + y * width) * 4]
      IN  /\ \A t \in 0..(maxChannel - 1) : cellAt(t + 1, x, y) <= cellAt(t, x, y)
          /\ \A t \in 0..maxChannel :
               /\ t >= threshold => cellAt(t, x, y) <= v
               /\ t <= threshold => cellAt(t, x, y) >= v
          /\ isGridValue(v, sunnyFiles(x, y, threshold))

\* the heat map has been built at a threshold that the pixels of some images equal
\* exactly: a cell of it is lower than at the threshold one below, which counts
\* those pixels; other images are tinted there and counted, so that the cell is
\* higher than at the threshold one above
C16_Witness ==
  /\ heatMap # undefined
  /\ gen.pc = "done"
  /\ \E x \in 0..(width - 1), y \in 0..(height - 1) :
       LET v == heatMap[1].canvas[(x + y * width) * 4]
       IN  /\ equalFiles(x, y, threshold) # {}
           /\ tintedFiles(x, y, threshold) # {}
           /\ cellAt(threshold - 1, x, y) > v
           /\ cellAt(threshold + 1, x, y) < v

\* C17: the threshold stays within [0, 255] and each change of it is a step of 10
\* or a shorter step that ends on the bound; the footprint stays at least 1 px
\* wide and high; a step that toggles isVertical swaps rectWidth with rectHeight
\* and changes nothing else
C17_ParametersInRange ==
  /\ [](/\ threshold >= 0 /\ threshold <= maxChannel
        /\ atMost(whole(1), rectWidth) /\ atMost(whole(1), rectHeight))
  /\ [][/\ threshold' # threshold =>
             \/ threshold' = threshold + thresholdStep
             \/ threshold' = threshold - thresholdStep
             \/ threshold' = maxChannel /\ threshold + thresholdStep > maxChannel
             \/ threshold' = 0 /\ threshold - thresholdStep < 0
        /\ isVertical' # isVertical =>
             /\ rectWidth' = rectHeight
             /\ rectHeight' = rectWidth
             /\ UNCHANGED <<threshold, heatMap, images, permanentRectangles,
                            movingRectangle, width, height, isLoading>>]_vars

\* the threshold has been clamped at 255 and left again by a step down, and a
\* footprint that is not square has been flipped
C17_Witness ==
  /\ threshold = maxChannel - thresholdStep
  /\ ~isVertical
  /\ lessThan(rectHeight, rectWidth)
  /\ lessThan(whole(1), rectHeight)

----------------------------------------------------------------------------
(* Properties of the hill climb on the two scenario heat maps *)

\* the search begun by the click has frozen
frozen == movingRectangle = null /\ Len(permanentRectangles) = 1

\* the centre that search started from
startOf == IF Len(moves) > 0 THEN moves[1]
           ELSE <<permanentRectangles[1].x, permanentRectangles[1].y>>

\* the heat map holds 255 in cell (2, 2) and 0 in every other cell, and the
\* footprint is 1 x 1
onPeak ==
  /\ heatMap # undefined
  /\ \A x \in 0..(width - 1), y \in 0..(height - 1) :
       heatMap[1].canvas[(x + y * width) * 4]
         = IF x = 2 /\ y = 2 THEN maxChannel ELSE 0
  /\ rectWidth = whole(1) /\ rectHeight = whole(1)

\* the heat map is 10 pixels wide and holds the same value in every cell
onUniform ==
  /\ heatMap # undefined
  /\ width = 10
  /\ \A x \in 0..(width - 1), y \in 0..(height - 1) :
       heatMap[1].canvas[(x + y * width) * 4] = heatMap[1].canvas[0]

\* a rectangle of 1 x 1 centred at (x, y) sums the sunny cell (2, 2)
coversPeak(x, y) ==
  /\ floor(minus(x, half(whole(1)))) = 2 /\ floor(plus(x, half(whole(1)))) = 3
  /\ floor(minus(y, half(whole(1)))) = 2 /\ floor(plus(y, half(whole(1)))) = 3

\* the centres read as 'starts at (0,0)', of the centres a click can give: the
\* centre (0, 0.5), the nearest to the corner, whose rectangle lies left of the
\* grid, and the centre (1, 0.5), whose rectangle sums cell (0, 0)
Origin == {<<whole(0), half(whole(1))>>, <<whole(1), half(whole(1))>>}

\* C18 as stated: on the single-peak heat map the search started at (0,0) freezes
\* with score 255
C18_PeakReached ==
  (onPeak /\ frozen /\ startOf \in Origin)
    => permanentRectangles[1].score = maxChannel

\* C18: on the single-peak heat map a search of 1 x 1 freezes where it started,
\* without a move and with its initial score, unless its start or one of the
\* eight positions next to it sums the sunny cell (2,2): then it freezes on that
\* cell with score 255 after at most one move.  The search started at (0,0)
\* freezes at (0,0) with score 0.
C18_PeakOnlyFromNextToIt ==
  (onPeak /\ frozen) =>
    LET r == permanentRectangles[1]
        s == startOf
    IN  IF \E dx \in {-1, 0, 1}, dy \in {-1, 0, 1} :
             coversPeak(plus(s[1], whole(dx)), plus(s[2], whole(dy)))
          THEN /\ r.score = maxChannel
               /\ coversPeak(r.x, r.y)
               /\ Len(moves) <= 1
          ELSE /\ r.score = 0
               /\ moves = << >>
               /\ <<r.x, r.y>> = s

\* the search started over cell (0, 0) has frozen there with score 0
C18_Witness ==
  /\ onPeak
  /\ frozen
  /\ moves = << >>
  /\ permanentRectangles[1].x = whole(1)
  /\ permanentRectangles[1].y = half(whole(1))
  /\ permanentRectangles[1].score = 0

\* every neighbour the hill climb may move to from r scores what r scores
plateau(r) == \A k \in candidates(heatMap, r) : neighbourScore(heatMap, r, k) = r.score

\* the rectangle r as it was when its search started
startRectangle(r) ==
  [r EXCEPT !.x = startOf[1], !.y = startOf[2],
            !.score = calculateRectangleScoreA(heatMap, startOf[1], startOf[2], r.w, r.h,
                                               width, height)]

\* C19: a search that starts where every in-bounds neighbour scores the same as
\* the start freezes on its first frame, without a move, at the start and with
\* the initial score; on the uniform heat map the rectangle centred at (5,5)
\* scores the value of a cell times the number of cells it covers, all its eight
\* neighbours are in bounds and score the same, and it freezes at (5,5) with that
\* score; and calculateRectangleScore and the hill-climbing frame, applied to the
\* 10 x 10 grid of cells equal to 100 and the rectangle of 2 x 2 at (5,5), give the
\* score 400 and the rectangle frozen at (5,5) with score 400
C19_PlateauFreezes ==
  /\ LET px == [k \in 0..399 |-> IF k % 4 = 3 THEN maxChannel ELSE 100]
         g == <<[width |-> 10, height |-> 10, canvas |-> px, pixels |-> px]>>
         r == [x |-> whole(5), y |-> whole(5), w |-> whole(2), h |-> whole(2),
               score |-> calculateRectangleScoreA(g, whole(5), whole(5), whole(2),
                                                  whole(2), 10, 10),
               searching |-> TRUE]
     IN  /\ r.score = 400
         /\ hillClimbStep(r, g, << >>, << >>, 10, 10)
              = [movingRectangle |-> null,
                 permanentRectangles |-> <<[r EXCEPT !.searching = FALSE]>>,
                 moves |-> << >>]
  /\ frozen =>
       LET r == permanentRectangles[1]
       IN  plateau(startRectangle(r)) =>
             /\ moves = << >>
             /\ r = [startRectangle(r) EXCEPT !.searching = FALSE]
  /\ onUniform =>
       LET cells == floor(rectWidth) * floor(rectHeight)
           value == heatMap[1].canvas[0]
       IN  /\ \A i \in 1..Len(movingRectangle) :
                LET r == movingRectangle[i]
                IN  (r.x = whole(5) /\ r.y = whole(5) /\ moves = << >>) =>
                      /\ r.score = cells * value
                      /\ candidates(heatMap, r) = 1..Len(directions)
                      /\ plateau(r)
           /\ (frozen /\ startOf = <<whole(5), whole(5)>>) =>
                /\ moves = << >>
                /\ permanentRectangles[1].x = whole(5)
                /\ permanentRectangles[1].y = whole(5)
                /\ permanentRectangles[1].score = cells * value

\* the rectangle of 3 x 2 started at (5,5) on the uniform heat map of cells equal
\* to 99 has frozen there with score 594, the sum of 6 cells
C19_Witness ==
  /\ onUniform
  /\ heatMap[1].canvas[0] = 99
  /\ frozen
  /\ moves = << >>
  /\ permanentRectangles[1].w = whole(3) /\ permanentRectangles[1].h = whole(2)
  /\ permanentRectangles[1].x = whole(5) /\ permanentRectangles[1].y = whole(5)
  /\ permanentRectangles[1].score = 594

----------------------------------------------------------------------------
(* Properties of the chunked generation of variant A *)

\* C20: while the chunked generateHeatMap is suspended between two columns, no
\* handler computes a score from the heat map: no click records a rectangle
\* scored on the partly written grid, and no loadPixels of a consumer replaces
\* the pixels the generation has written so far
C20_NoReadWhileGenerating ==
  [][(gen.pc = "await" /\ heatMap # undefined /\ gen' = gen)
       => (clicks' = clicks /\ heatMap' = heatMap)]_vars

----------------------------------------------------------------------------
(* Properties of the searches of variant A *)

\* C21: at most one search is Searching at any time: the moving rectangle, when
\* there is one, is the only rectangle that is searching, and frozen and active
\* searches together never outnumber the clicks.  A click inside the canvas
\* leaves permanentRectangles alone and makes the moving rectangle a new search
\* at the clicked point (raised by the offset of mousePressed), whatever search
\* was active; permanentRectangles only grows, one entry at a time, by freezing
\* the search that was active before the step, so a replaced search is never
\* frozen and never appended
C21_SingleActiveSearch ==
  /\ [](/\ Len(movingRectangle) <= 1
        /\ \A i \in 1..Len(movingRectangle) : movingRectangle[i].searching
        /\ \A n \in 1..Len(permanentRectangles) : ~permanentRectangles[n].searching
        /\ Len(permanentRectangles) + Len(movingRectangle) <= clicks)
  /\ [][/\ clicks' # clicks =>
              /\ permanentRectangles' = permanentRectangles
              /\ movingRectangle' # null
              /\ LET r == movingRectangle'[1]
                 IN  /\ r.searching
                     /\ r.w = rectWidth /\ r.h = rectHeight
                     /\ \E mx \in MouseXs, my \in MouseYs :
                          /\ mouseInCanvas(mx, my, width, height)
                          /\ r.x = whole(mx)
                          /\ r.y = plus(whole(my), minus(half(negated(rectHeight)),
                                                          whole(cursorGap)))
                          /\ r.score = calculateRectangleScoreA(heatMap, r.x, r.y, r.w, r.h,
                                                                width, height)
        /\ permanentRectangles' # permanentRectangles =>
              /\ movingRectangle # null
              /\ movingRectangle' = null
              /\ permanentRectangles' =
                   Append(permanentRectangles, [movingRectangle[1] EXCEPT !.searching = FALSE])]_vars

\* two clicks and a single frozen placement with no search left: the first
\* search was replaced while it was searching, and only the second, after a
\* move, has frozen
C21_Witness ==
  /\ clicks = MaxClicks
  /\ Len(permanentRectangles) = 1
  /\ movingRectangle = null
  /\ Len(moves) > 0

----------------------------------------------------------------------------
(* Properties of the handlers of variant C before the heat map exists *)

\* C22: while heatMap is still undefined no handler that dereferences or
\* rebuilds it runs: no step is the keyPressed of UP or DOWN, whose
\* generateHeatMap() begins with heatMap.loadPixels(), or a mousePressed inside
\* the canvas, whose calculateRectangleScore begins with it
C22_NoUseBeforeHeatMap ==
  [][heatMap = undefined =>
       /\ ~ \E key \in {"UP", "DOWN"} : keyPressedC(key)
       /\ ~ \E m \in MouseC :
              mouseInCanvas(m[1], m[2], width, height) /\ mousePressedC(m[1], m[2])]_vars

====
